---- MODULE Spec2Model ----
(***************************************************************************)
(* Model of src/agent.py: the LangGraph workflow (CodeGen -> Executor ->   *)
(* Tester -> Fixer -> Executor ...) and the driver loop invoke_with_timing *)
(* that runs it up to max_attempts times and caches a successful parser.   *)
(***************************************************************************)
EXTENDS Integers, Sequences, FiniteSets, TLC

\* ---------------------------------------------------------------- bounds
\* max_attempts ranges over 1..MaxAttemptsBound (main() passes 3).
MaxAttemptsBound == 3
\* The generation service answers with one of NumArtifacts distinct texts.
NumArtifacts == 2

\* AgentState.code / AgentState.logs default: the empty string.
EmptyCode == 0
Artifacts == 1..NumArtifacts

\* Observation counters saturate here; the cap is never reached by the program
\* (see CountersBelowCap), it only keeps a non-terminating variant finite.
CounterCap == MaxAttemptsBound * (MaxAttemptsBound + 2)
Count(n) == IF n < CounterCap THEN n + 1 ELSE n

VARIABLES
    \* AgentState fields
    code,          \* state.code: latest generated parser code
    logs,          \* state.logs: sequence of log segments
    success,       \* state.success
    attempts,      \* state.attempts
    \* invoke_with_timing / build_graph
    max_attempts,  \* the max_attempts argument (same value given to both)
    attempt,       \* the for-loop variable of invoke_with_timing (0: before the loop)
    pc,            \* position: "for", a graph node, "END", "save", "done", "aborted"
    \* file system
    cacheFile,     \* cache/<bank>/success.py: <<>> when absent, <<text>> otherwise
    parserFile,    \* custom_parsers/<bank>_parser.py: <<>> when absent, <<text>> otherwise
    \* observations of the run (not program state)
    cacheAtStart,      \* cacheFile when the run started
    llmCalls,          \* number of call_llm invocations
    fixerRuns,         \* number of completed fixer steps
    graphInvocations,  \* number of graph.invoke calls
    cacheWrites,       \* number of writes of the cache file
    runnerResult,      \* success flag returned by the latest run_pytest
    diagOutcome,       \* latest diagnostic pass: "none", "summary", "raises"
    last,              \* the step executed last
    raised,            \* the uncaught exception that ended the run: "none",
                       \* "call_llm", "write_file"
    \* a call of the comparison functions (compare_and_summarize in agent.py,
    \* compare_and_assert in the test suite) on one pair of DataFrames
    expected,      \* the expected DataFrame
    actual,        \* the actual DataFrame
    summary,       \* what compare_and_summarize returned or raised
    asserted,      \* how compare_and_assert ended
    cmpPc          \* "idle" (no call), "input", "summarized", "asserted", "both"

agentVars == <<code, logs, success, attempts, max_attempts, attempt, pc,
               cacheFile, parserFile, cacheAtStart, llmCalls, fixerRuns,
               graphInvocations, cacheWrites, runnerResult, diagOutcome, last,
               raised>>
cmpVars == <<expected, actual, summary, asserted, cmpPc>>
vars == <<agentVars, cmpVars>>

stateFields == <<code, logs, success, attempts>>
observations == <<llmCalls, fixerRuns, graphInvocations, cacheWrites,
                  runnerResult, diagOutcome>>

GraphNodes == {"CodeGen", "Executor", "Tester", "Fixer"}

\* ------------------------------------------------------------ helpers
\* run_pytest: (returncode == 0, stdout + stderr), or (False, str(e)) when the
\* subprocess cannot be run or times out.
RunnerOutcomes == {"passed", "failed", "exception"}
run_pytest(o) ==
    [success |-> (o = "passed"),
     logs    |-> IF o = "exception" THEN <<"str(e)">> ELSE <<"stdout+stderr">>]

\* The diagnostic pass of tester either produces the comparison summary or
\* raises an Exception somewhere between loading the module and comparing.
DiagOutcomes == {"summary", "raises"}

\* Variant of route_from_tester: `>` for `>=`, one repair too many.
route_one_more(succ, att) ==
    IF succ THEN "pass"
    ELSE IF att > max_attempts THEN "max_retries"
    ELSE "fail"

\* Variant of route_from_tester: gives up one repair early.
route_gives_up_early(succ, att) ==
    IF succ THEN "pass"
    ELSE IF att + 1 >= max_attempts THEN "max_retries"
    ELSE "fail"

\* build_graph.route_from_tester and the conditional edge map.
route_from_tester(succ, att) ==
    IF succ THEN "pass"
    ELSE IF att >= max_attempts THEN "max_retries"
    ELSE "fail"

TesterEdges(label) ==
    CASE label = "pass" -> "END"
      [] label = "fail" -> "Fixer"
      [] label = "max_retries" -> "END"

\* ------------------------------------------------------- DataFrames
\* A DataFrame: its column labels in order and its rows in order, each row
\* holding one cell per column. Null is pandas' NaN / None.
MaxRows == 2
Null == "NaN"
ColumnSeqs == {<< >>, <<"a">>, <<"b">>, <<"a", "b">>}
AllCells == {"a", "b", "x", "", Null}
\* Column "a" holds text that may be empty or missing, column "b" holds text.
CellsOf(c) == IF c = "a" THEN {"a", "", Null} ELSE {"b", "x"}
RowsOver(cols) ==
    {r \in [1..Len(cols) -> AllCells] :
        \A j \in 1..Len(cols) : r[j] \in CellsOf(cols[j])}
FramesOver(cols) ==
    {[cols |-> cols, rows |-> rs] :
        rs \in UNION {[1..k -> RowsOver(cols)] : k \in 0..MaxRows}}
DataFrames == UNION {FramesOver(cols) : cols \in ColumnSeqs}

Min(a, b) == IF a <= b THEN a ELSE b

\* DataFrame.shape
shape(df) == <<Len(df.rows), Len(df.cols)>>

\* Variant of drop_repeated_headers: a row counts as a header as soon as its
\* first cell is a column label (as custom_parsers/icici_parser.py does).
drop_rows_starting_with_header(df) ==
    IF df.rows = << >>
    THEN [cols |-> << >>, rows |-> << >>]
    ELSE LET keep(row) ==
                 Len(df.cols) > 0 /\ \A j \in 1..Len(df.cols) : row[1] # df.cols[j]
         IN  [cols |-> df.cols, rows |-> SelectSeq(df.rows, keep)]

\* actual[~actual.apply(lambda row: list(row) == header_row, axis=1)]
\*     .reset_index(drop=True)
\* With at least one row the rows equal to the column labels are removed. With
\* no row, pandas' apply returns an empty float Series (nothing to reduce), ~
\* returns it unchanged, and indexing by it selects columns: none, so the
\* result has neither rows nor columns.
drop_repeated_headers(df) ==
    IF df.rows = << >>
    THEN [cols |-> << >>, rows |-> << >>]
    ELSE LET keep(row) == row # df.cols
         IN  [cols |-> df.cols, rows |-> SelectSeq(df.rows, keep)]

\* df.iloc[:n]
iloc(df, n) == [cols |-> df.cols, rows |-> SubSeq(df.rows, 1, n)]

\* df.fillna("")
fillna(df) ==
    [cols |-> df.cols,
     rows |-> [i \in 1..Len(df.rows) |->
                 [j \in 1..Len(df.cols) |->
                    IF df.rows[i][j] = Null THEN "" ELSE df.rows[i][j]]]]

\* DataFrame.equals: same shape, same labels, same cells (NaN equals NaN).
df_equals(x, y) == x.cols = y.cols /\ x.rows = y.rows

\* The precondition of `==` / `!=` between DataFrames (and Series): both operands
\* identically labelled, else ValueError.
identically_labeled(x, y) == x.cols = y.cols /\ Len(x.rows) = Len(y.rows)

\* Element-wise ==: NaN equals nothing.
cell_eq(u, v) == u # Null /\ v # Null /\ u = v

\* Variant of row_matches: `.all(axis=1)` is missing, so matching cells are
\* counted.
cell_matches(ef, af) ==
    Cardinality({<<i, j>> \in (1..Len(ef.rows)) \X (1..Len(ef.cols)) :
                    cell_eq(ef.rows[i][j], af.rows[i][j])})

\* (expected_filled == actual_filled).all(axis=1).sum()
row_matches(ef, af) ==
    Cardinality({i \in 1..Len(ef.rows) :
                    \A j \in 1..Len(ef.cols) : cell_eq(ef.rows[i][j], af.rows[i][j])})

\* `col in df.columns` and df[col]
has_col(df, c) == \E j \in 1..Len(df.cols) : df.cols[j] = c
col_index(df, c) == CHOOSE j \in 1..Len(df.cols) : df.cols[j] = c

\* int((x[col] != y[col]).sum())
column_mismatches(x, y, c) ==
    Cardinality({i \in 1..Len(x.rows) :
                    ~cell_eq(x.rows[i][col_index(x, c)], y.rows[i][col_index(y, c)])})

\* Variant of mismatch_summary: columns without a mismatch are left out.
mismatch_summary_nonzero(e, a, ef, af) ==
    LET full == [k \in 1..Len(e.cols) |->
                    IF has_col(a, e.cols[k])
                    THEN <<e.cols[k], TRUE, column_mismatches(ef, af, e.cols[k])>>
                    ELSE <<e.cols[k], FALSE, 0>>]
        nonzero(t) == ~t[2] \/ t[3] > 0
    IN  SelectSeq(full, nonzero)

\* The dict mismatch_summary, in insertion order: for each column of expected
\* <<col, TRUE, count>>, or <<col, FALSE, 0>> for "MISSING".
mismatch_summary(e, a, ef, af) ==
    [k \in 1..Len(e.cols) |->
        IF has_col(a, e.cols[k])
        THEN <<e.cols[k], TRUE, column_mismatches(ef, af, e.cols[k])>>
        ELSE <<e.cols[k], FALSE, 0>>]

\* ------------------------------------------------ results of a comparison
\* parts: the segments joined by "; "; shape: the two shapes of the shape
\* note; row_matches / total: the "<row_matches>/<total> rows match" segment.
Report(exc, parts, shp, rm, total, mm) ==
    [raised |-> exc, parts |-> parts, shape |-> shp, row_matches |-> rm,
     total |-> total, mismatches |-> mm]
NotCalled == Report("not called", << >>, << >>, 0, 0, << >>)
AllMatch ==
    Report("none", <<"All rows and columns match exactly.">>, << >>, 0, 0, << >>)
Raises(exc) == Report(exc, << >>, << >>, 0, 0, << >>)

\* agent.compare_and_summarize
compare_and_summarize(expected0, actual0) ==
    LET a == drop_repeated_headers(actual0)
        e == expected0
        min_len == Min(Len(e.rows), Len(a.rows))
        expected_filled == fillna(iloc(e, min_len))
        actual_filled == fillna(iloc(a, min_len))
    IN  IF df_equals(expected_filled, actual_filled)
        THEN AllMatch
        ELSE IF ~identically_labeled(expected_filled, actual_filled)
        THEN Raises("ValueError")
        ELSE Report("none",
                    (IF shape(e) # shape(a) THEN <<"Shape mismatch">> ELSE << >>)
                       \o <<"rows match exactly!", "Mismatches by column">>,
                    IF shape(e) # shape(a) THEN <<shape(e), shape(a)>> ELSE << >>,
                    row_matches(expected_filled, actual_filled),
                    Len(e.rows),
                    mismatch_summary(e, a, expected_filled, actual_filled))

\* tests/test_icici_parser.compare_and_assert: returns (raised = "none"), or
\* raises AssertionError with the message, or ValueError from a comparison of
\* differently labelled operands.
compare_and_assert(expected0, actual0) ==
    LET a == drop_repeated_headers(actual0)
        e == expected0
        min_len == Min(Len(e.rows), Len(a.rows))
        expected_filled == fillna(iloc(e, min_len))
        actual_filled == fillna(iloc(a, min_len))
    IN  IF df_equals(a, e)
        THEN Raises("none")
        ELSE IF ~identically_labeled(expected_filled, actual_filled)
        THEN Raises("ValueError")
        ELSE IF \E k \in 1..Len(e.cols) :
                   has_col(a, e.cols[k]) /\ Len(e.rows) # Len(a.rows)
        THEN Raises("ValueError")
        ELSE Report("AssertionError",
                    (IF shape(e) # shape(a) THEN <<"Shape mismatch">> ELSE << >>)
                       \o <<"rows match exactly", "Mismatches by column">>,
                    IF shape(e) # shape(a) THEN <<shape(e), shape(a)>> ELSE << >>,
                    row_matches(expected_filled, actual_filled),
                    Len(e.rows),
                    mismatch_summary(e, a, fillna(e), fillna(a)))

\* A DataFrame without rows or columns: the comparison variables' value while
\* the workflow runs.
EmptyFrame == [cols |-> << >>, rows |-> << >>]

\* ---------------------------------------------------------------- Init
\* main(): AgentState with default code/logs/success/attempts; the cache file
\* and the parser file may or may not exist from an earlier run.
Init ==
    /\ code = EmptyCode
    /\ logs = << >>
    /\ success = FALSE
    /\ attempts = 0
    /\ max_attempts \in 1..MaxAttemptsBound
    /\ attempt = 0
    /\ pc = "for"
    /\ cacheFile \in {<< >>} \cup {<<a>> : a \in Artifacts}
    /\ parserFile \in {<< >>} \cup {<<a>> : a \in Artifacts}
    /\ cacheAtStart = cacheFile
    /\ llmCalls = 0
    /\ fixerRuns = 0
    /\ graphInvocations = 0
    /\ cacheWrites = 0
    /\ runnerResult = FALSE
    /\ diagOutcome = "none"
    /\ last = "init"
    /\ raised = "none"
    /\ expected = EmptyFrame
    /\ actual = EmptyFrame
    /\ summary = NotCalled
    /\ asserted = NotCalled
    /\ cmpPc = "idle"

\* ------------------------------------------------------ external calls
\* call_llm either returns a text or raises (network, API error).
LlmOutcomes == {<<"ok", a>> : a \in Artifacts} \cup {<<"raise", EmptyCode>>}
\* write_file either writes the whole content or raises (I/O error).
WriteOutcomes == {"ok", "raise"}

\* Variant of codegen: a failure of the generation service is caught and the
\* node returns the state as it was.
codegen_swallows_failure ==
    /\ pc = "CodeGen"
    /\ IF cacheFile # << >>
       THEN /\ code' = cacheFile[1]
            /\ success' = TRUE
            /\ pc' = "Executor" /\ raised' = raised
            /\ UNCHANGED llmCalls
       ELSE \E r \in LlmOutcomes :
            /\ llmCalls' = Count(llmCalls)
            /\ IF r[1] = "ok"
               THEN code' = r[2] /\ pc' = "Executor" /\ raised' = raised
               ELSE code' = code /\ pc' = "Executor" /\ raised' = "call_llm"
            /\ UNCHANGED success
    /\ last' = "CodeGen"
    /\ UNCHANGED cmpVars
    /\ UNCHANGED <<logs, attempts, max_attempts, attempt, cacheFile, parserFile,
                   cacheAtStart, fixerRuns, graphInvocations, cacheWrites,
                   runnerResult, diagOutcome>>

\* Variant of codegen: the cache branch lacks its `return state` and falls
\* through to the generation service.
codegen_falls_through ==
    /\ pc = "CodeGen"
    /\ \E r \in LlmOutcomes :
          /\ llmCalls' = Count(llmCalls)
          /\ success' = IF cacheFile # << >> THEN TRUE ELSE success
          /\ IF r[1] = "ok"
             THEN code' = r[2] /\ pc' = "Executor" /\ raised' = raised
             ELSE /\ code' = IF cacheFile # << >> THEN cacheFile[1] ELSE code
                  /\ pc' = "aborted" /\ raised' = "call_llm"
    /\ last' = "CodeGen"
    /\ UNCHANGED cmpVars
    /\ UNCHANGED <<logs, attempts, max_attempts, attempt, cacheFile, parserFile,
                   cacheAtStart, fixerRuns, graphInvocations, cacheWrites,
                   runnerResult, diagOutcome>>

\* --------------------------------------------------------- graph nodes
\* codegen: reuse the cached parser when the cache file exists, else ask the
\* generation service. Edge CodeGen -> Executor.
codegen ==
    /\ pc = "CodeGen"
    /\ IF cacheFile # << >>
       THEN /\ code' = cacheFile[1]
            /\ success' = TRUE
            /\ pc' = "Executor" /\ raised' = raised
            /\ UNCHANGED llmCalls
       ELSE \E r \in LlmOutcomes :
            /\ llmCalls' = Count(llmCalls)
            /\ IF r[1] = "ok"
               THEN code' = r[2] /\ pc' = "Executor" /\ raised' = raised
               ELSE code' = code /\ pc' = "aborted" /\ raised' = "call_llm"
            /\ UNCHANGED success
    /\ last' = "CodeGen"
    /\ UNCHANGED cmpVars
    /\ UNCHANGED <<logs, attempts, max_attempts, attempt, cacheFile, parserFile,
                   cacheAtStart, fixerRuns, graphInvocations, cacheWrites,
                   runnerResult, diagOutcome>>

\* executor: write state.code to the parser file. Edge Executor -> Tester.
executor ==
    /\ pc = "Executor"
    /\ \E w \in WriteOutcomes :
          IF w = "ok"
          THEN parserFile' = <<code>> /\ pc' = "Tester" /\ raised' = raised
          ELSE parserFile' = parserFile /\ pc' = "aborted" /\ raised' = "write_file"
    /\ last' = "Executor"
    /\ UNCHANGED cmpVars
    /\ UNCHANGED <<stateFields, max_attempts, attempt, cacheFile, cacheAtStart,
                   observations>>

\* Variant of tester: the manual comparison runs without try/except, so an
\* exception in it leaves tester before success and logs are assigned.
tester_unguarded ==
    /\ pc = "Tester"
    /\ \E o \in RunnerOutcomes, d \in DiagOutcomes :
          LET r == run_pytest(o)
          IN  /\ runnerResult' = r.success
              /\ diagOutcome' = IF ~r.success THEN d ELSE "none"
              /\ IF ~r.success /\ d = "raises"
                 THEN /\ UNCHANGED <<success, logs>>
                      /\ pc' = "aborted" /\ raised' = "diagnostics"
                 ELSE /\ success' = r.success
                      /\ logs' = IF ~r.success
                                 THEN Append(r.logs, "[Agent Diagnostics]")
                                 ELSE r.logs
                      /\ pc' = TesterEdges(route_from_tester(r.success, attempts)) /\ raised' = raised
    /\ last' = "Tester"
    /\ UNCHANGED cmpVars
    /\ UNCHANGED <<code, attempts, max_attempts, attempt, cacheFile, parserFile,
                   cacheAtStart, llmCalls, fixerRuns, graphInvocations,
                   cacheWrites>>

\* tester: run pytest; when it fails, run the manual comparison inside
\* try/except and append its summary or the error note; then set success and
\* logs. The conditional edge route_from_tester picks the next node.
tester ==
    /\ pc = "Tester"
    /\ \E o \in RunnerOutcomes, d \in DiagOutcomes :
          LET r == run_pytest(o)
              note == IF d = "summary" THEN "[Agent Diagnostics]"
                      ELSE "[Agent Diagnostics Error]"
          IN  /\ success' = r.success
              /\ logs' = IF ~r.success THEN Append(r.logs, note) ELSE r.logs
              /\ runnerResult' = r.success
              /\ diagOutcome' = IF ~r.success THEN d ELSE "none"
              /\ pc' = TesterEdges(route_from_tester(r.success, attempts))
    /\ last' = "Tester"
    /\ UNCHANGED <<raised, cmpVars>>
    /\ UNCHANGED <<code, attempts, max_attempts, attempt, cacheFile, parserFile,
                   cacheAtStart, llmCalls, fixerRuns, graphInvocations,
                   cacheWrites>>

\* Variant of fixer: the edge out of Fixer leads to Tester, not Executor.
fixer_skips_write ==
    /\ pc = "Fixer"
    /\ \E r \in LlmOutcomes :
          /\ llmCalls' = Count(llmCalls)
          /\ IF r[1] = "ok"
             THEN /\ code' = r[2]
                  /\ attempts' = attempts + 1
                  /\ fixerRuns' = Count(fixerRuns)
                  /\ pc' = "Tester" /\ raised' = raised
             ELSE /\ UNCHANGED <<code, attempts, fixerRuns>>
                  /\ pc' = "aborted" /\ raised' = "call_llm"
    /\ last' = "Fixer"
    /\ UNCHANGED cmpVars
    /\ UNCHANGED <<logs, success, max_attempts, attempt, cacheFile, parserFile,
                   cacheAtStart, graphInvocations, cacheWrites, runnerResult,
                   diagOutcome>>

\* Variant of fixer: the `state.attempts += 1` is missing.
fixer_no_increment ==
    /\ pc = "Fixer"
    /\ \E r \in LlmOutcomes :
          /\ llmCalls' = Count(llmCalls)
          /\ IF r[1] = "ok"
             THEN /\ code' = r[2]
                  /\ fixerRuns' = Count(fixerRuns)
                  /\ pc' = "Executor" /\ raised' = raised
             ELSE /\ UNCHANGED <<code, fixerRuns>>
                  /\ pc' = "aborted" /\ raised' = "call_llm"
    /\ last' = "Fixer"
    /\ UNCHANGED cmpVars
    /\ UNCHANGED <<logs, success, attempts, max_attempts, attempt, cacheFile,
                   parserFile, cacheAtStart, graphInvocations, cacheWrites,
                   runnerResult, diagOutcome>>

\* Variant of fixer: marks the state successful as soon as it has a repair.
fixer_optimistic ==
    /\ pc = "Fixer"
    /\ \E r \in LlmOutcomes :
          /\ llmCalls' = Count(llmCalls)
          /\ IF r[1] = "ok"
             THEN /\ code' = r[2]
                  /\ success' = TRUE
                  /\ attempts' = attempts + 1
                  /\ fixerRuns' = Count(fixerRuns)
                  /\ pc' = "Executor" /\ raised' = raised
             ELSE /\ UNCHANGED <<code, success, attempts, fixerRuns>>
                  /\ pc' = "aborted" /\ raised' = "call_llm"
    /\ last' = "Fixer"
    /\ UNCHANGED cmpVars
    /\ UNCHANGED <<logs, max_attempts, attempt, cacheFile, parserFile,
                   cacheAtStart, graphInvocations, cacheWrites, runnerResult,
                   diagOutcome>>

\* fixer: ask the generation service for a replacement, then attempts += 1.
\* Edge Fixer -> Executor.
fixer ==
    /\ pc = "Fixer"
    /\ \E r \in LlmOutcomes :
          /\ llmCalls' = Count(llmCalls)
          /\ IF r[1] = "ok"
             THEN /\ code' = r[2]
                  /\ attempts' = attempts + 1
                  /\ fixerRuns' = Count(fixerRuns)
                  /\ pc' = "Executor" /\ raised' = raised
             ELSE /\ UNCHANGED <<code, attempts, fixerRuns>>
                  /\ pc' = "aborted" /\ raised' = "call_llm"
    /\ last' = "Fixer"
    /\ UNCHANGED cmpVars
    /\ UNCHANGED <<logs, success, max_attempts, attempt, cacheFile, parserFile,
                   cacheAtStart, graphInvocations, cacheWrites, runnerResult,
                   diagOutcome>>

\* Variant of for_loop: the range runs one index too far.
for_loop_one_more ==
    /\ pc = "for"
    /\ IF attempt > max_attempts
       THEN /\ pc' = "save"
            /\ UNCHANGED <<attempt, attempts, graphInvocations>>
       ELSE /\ attempt' = attempt + 1
            /\ IF success
               THEN /\ pc' = "save"
                    /\ UNCHANGED <<attempts, graphInvocations>>
               ELSE /\ attempts' = attempt + 1
                    /\ graphInvocations' = Count(graphInvocations)
                    /\ pc' = "CodeGen"
    /\ last' = "for"
    /\ UNCHANGED <<raised, cmpVars>>
    /\ UNCHANGED <<code, logs, success, max_attempts, cacheFile, parserFile,
                   cacheAtStart, llmCalls, fixerRuns, cacheWrites, runnerResult,
                   diagOutcome>>

\* Variant of for_loop: the `state.attempts = attempt` is missing, so the repair
\* counter carries over from one graph run to the next.
for_loop_keeps_attempts ==
    /\ pc = "for"
    /\ IF attempt >= max_attempts
       THEN /\ pc' = "save"
            /\ UNCHANGED <<attempt, attempts, graphInvocations>>
       ELSE /\ attempt' = attempt + 1
            /\ IF success
               THEN /\ pc' = "save"
                    /\ UNCHANGED <<attempts, graphInvocations>>
               ELSE /\ attempts' = attempts
                    /\ graphInvocations' = Count(graphInvocations)
                    /\ pc' = "CodeGen"
    /\ last' = "for"
    /\ UNCHANGED <<raised, cmpVars>>
    /\ UNCHANGED <<code, logs, success, max_attempts, cacheFile, parserFile,
                   cacheAtStart, llmCalls, fixerRuns, cacheWrites, runnerResult,
                   diagOutcome>>

\* ---------------------------------------------------- invoke_with_timing
\* The head of `for attempt in range(1, max_attempts + 1)`: leave the loop when
\* the range is exhausted; otherwise take the next index, break if
\* state.success, else set state.attempts = attempt and call graph.invoke.
for_loop ==
    /\ pc = "for"
    /\ IF attempt >= max_attempts
       THEN /\ pc' = "save"
            /\ UNCHANGED <<attempt, attempts, graphInvocations>>
       ELSE /\ attempt' = attempt + 1
            /\ IF success
               THEN /\ pc' = "save"
                    /\ UNCHANGED <<attempts, graphInvocations>>
               ELSE /\ attempts' = attempt + 1
                    /\ graphInvocations' = Count(graphInvocations)
                    /\ pc' = "CodeGen"
    /\ last' = "for"
    /\ UNCHANGED <<raised, cmpVars>>
    /\ UNCHANGED <<code, logs, success, max_attempts, cacheFile, parserFile,
                   cacheAtStart, llmCalls, fixerRuns, cacheWrites, runnerResult,
                   diagOutcome>>

\* After graph.invoke returned: state = AgentState(**result_dict), the
\* per-attempt report, and `if state.success: break`.
after_invoke ==
    /\ pc = "END"
    /\ pc' = IF success THEN "save" ELSE "for"
    /\ last' = "after_invoke"
    /\ UNCHANGED <<raised, cmpVars>>
    /\ UNCHANGED <<stateFields, max_attempts, attempt, cacheFile, parserFile,
                   cacheAtStart, observations>>

\* Variant of save_cache: the `if state.success` guard is missing.
save_cache_always ==
    /\ pc = "save"
    /\ \E w \in WriteOutcomes :
          IF w = "ok"
          THEN /\ cacheFile' = <<code>>
               /\ cacheWrites' = Count(cacheWrites)
               /\ pc' = "done" /\ raised' = raised
          ELSE /\ UNCHANGED <<cacheFile, cacheWrites>>
               /\ pc' = "aborted" /\ raised' = "write_file"
    /\ last' = "save"
    /\ UNCHANGED cmpVars
    /\ UNCHANGED <<stateFields, max_attempts, attempt, parserFile, cacheAtStart,
                   llmCalls, fixerRuns, graphInvocations, runnerResult,
                   diagOutcome>>

\* After the loop: write the cache file when state.success, else only report.
save_cache ==
    /\ pc = "save"
    /\ IF success
       THEN \E w \in WriteOutcomes :
               IF w = "ok"
               THEN /\ cacheFile' = <<code>>
                    /\ cacheWrites' = Count(cacheWrites)
                    /\ pc' = "done" /\ raised' = raised
               ELSE /\ UNCHANGED <<cacheFile, cacheWrites>>
                    /\ pc' = "aborted" /\ raised' = "write_file"
       ELSE /\ UNCHANGED <<cacheFile, cacheWrites>>
            /\ pc' = "done" /\ raised' = raised
    /\ last' = "save"
    /\ UNCHANGED cmpVars
    /\ UNCHANGED <<stateFields, max_attempts, attempt, parserFile, cacheAtStart,
                   llmCalls, fixerRuns, graphInvocations, runnerResult,
                   diagOutcome>>

Next ==
    \/ for_loop
    \/ codegen
    \/ executor
    \/ tester
    \/ fixer
    \/ after_invoke
    \/ save_cache

Spec == Init /\ [][Next]_vars

\* ---------------------------------------------------- a graph run alone
\* graph.invoke on a state whose attempts is any value from 0 to past
\* max_attempts: build_graph's graph without the driver loop.
GraphInit ==
    /\ code = EmptyCode
    /\ logs = << >>
    /\ success = FALSE
    /\ attempts \in 0..(MaxAttemptsBound + 1)
    /\ max_attempts \in 1..MaxAttemptsBound
    /\ attempt = 0
    /\ pc = "CodeGen"
    /\ cacheFile \in {<< >>} \cup {<<a>> : a \in Artifacts}
    /\ parserFile \in {<< >>} \cup {<<a>> : a \in Artifacts}
    /\ cacheAtStart = cacheFile
    /\ llmCalls = 0
    /\ fixerRuns = 0
    /\ graphInvocations = 1
    /\ cacheWrites = 0
    /\ runnerResult = FALSE
    /\ diagOutcome = "none"
    /\ last = "init"
    /\ raised = "none"
    /\ expected = EmptyFrame
    /\ actual = EmptyFrame
    /\ summary = NotCalled
    /\ asserted = NotCalled
    /\ cmpPc = "idle"

GraphNext ==
    \/ codegen
    \/ executor
    \/ tester
    \/ fixer

GraphSpec == GraphInit /\ [][GraphNext]_vars

\* ------------------------------------------------- a comparison alone
\* One call of compare_and_summarize and one of compare_and_assert on the
\* same pair of DataFrames; the workflow is not running.
CmpInit ==
    /\ code = EmptyCode
    /\ logs = << >>
    /\ success = FALSE
    /\ attempts = 0
    /\ max_attempts = 1
    /\ attempt = 0
    /\ pc = "idle"
    /\ cacheFile = << >>
    /\ parserFile = << >>
    /\ cacheAtStart = << >>
    /\ llmCalls = 0
    /\ fixerRuns = 0
    /\ graphInvocations = 0
    /\ cacheWrites = 0
    /\ runnerResult = FALSE
    /\ diagOutcome = "none"
    /\ last = "init"
    /\ raised = "none"
    /\ expected \in DataFrames
    /\ actual \in DataFrames
    /\ summary = NotCalled
    /\ asserted = NotCalled
    /\ cmpPc = "input"

summarize ==
    /\ cmpPc \in {"input", "asserted"}
    /\ summary' = compare_and_summarize(expected, actual)
    /\ cmpPc' = IF cmpPc = "input" THEN "summarized" ELSE "both"
    /\ UNCHANGED <<expected, actual, asserted, agentVars>>

run_test ==
    /\ cmpPc \in {"input", "summarized"}
    /\ asserted' = compare_and_assert(expected, actual)
    /\ cmpPc' = IF cmpPc = "input" THEN "asserted" ELSE "both"
    /\ UNCHANGED <<expected, actual, summary, agentVars>>

CmpNext ==
    \/ summarize
    \/ run_test

CmpSpec == CmpInit /\ [][CmpNext]_vars

\* The run is single-threaded and synchronous: whenever a step is possible the
\* program takes it (every external call is assumed to return or raise).
FairSpec == Spec /\ WF_vars(Next)

Finished == pc \in {"done", "aborted"}

TypeOK ==
    /\ code \in {EmptyCode} \cup Artifacts
    /\ success \in BOOLEAN
    /\ attempts \in 0..MaxAttemptsBound
    /\ attempt \in 0..max_attempts
    /\ pc \in GraphNodes \cup {"for", "END", "save", "done", "aborted"}

\* The saturation of the observation counters is never reached.
CountersBelowCap ==
    /\ llmCalls < CounterCap
    /\ fixerRuns < CounterCap
    /\ graphInvocations < CounterCap
    /\ cacheWrites < CounterCap

\* ================================================================ claims

\* C1: whenever a graph run started by the driver loop reaches END with
\* success = FALSE, attempts equals max_attempts (it never gives up earlier).
C1_NoEarlyGiveUp ==
    (pc = "END" /\ ~success) => attempts = max_attempts

\* A graph run that repaired at least once and then ended unsuccessfully.
C1_Witness ==
    /\ pc = "END" /\ ~success /\ last = "Tester"
    /\ fixerRuns >= 1 /\ attempts = max_attempts

\* C2: the driver loop invokes the graph at most max_attempts times, and once
\* an outer iteration has ended with success = TRUE the run stays outside the
\* graph with success TRUE: no further invocation, no further node step.
OuterSucceeded == success /\ pc \notin GraphNodes
C2_BoundedInvocations ==
    /\ [](graphInvocations <= max_attempts)
    /\ [][OuterSucceeded =>
            (OuterSucceeded' /\ graphInvocations' = graphInvocations
               /\ llmCalls' = llmCalls /\ fixerRuns' = fixerRuns
               /\ parserFile' = parserFile)]_vars

\* A run that stopped on success before using all its outer iterations.
C2_Witness ==
    /\ pc = "done" /\ success
    /\ graphInvocations >= 1 /\ graphInvocations < max_attempts

\* C3: every run eventually finishes; every graph run eventually reaches END
\* (or the run aborts on a raised external failure); and a run that leaves the
\* loop does so with success = TRUE or after max_attempts outer iterations.
C3_Terminates ==
    /\ <>Finished
    /\ [](pc = "CodeGen" => <>(pc \in {"END", "aborted"}))
    /\ [](pc \in {"save", "done"} => (success \/ attempt = max_attempts))

\* A run that exhausted all outer iterations, repairing on the way.
C3_Witness ==
    /\ pc = "done" /\ ~success
    /\ attempt = max_attempts /\ graphInvocations = max_attempts
    /\ fixerRuns >= 1

\* C4: with a cache file present, codegen loads it as state.code, sets
\* success = TRUE and does not call the generation service.
C4_CacheHit ==
    [][(pc = "CodeGen" /\ cacheFile # << >>) =>
         (/\ code' = cacheFile[1]
          /\ success'
          /\ llmCalls' = llmCalls
          /\ pc' = "Executor")]_vars

\* codegen has just taken the cache branch.
C4_Witness ==
    /\ last = "CodeGen" /\ pc = "Executor"
    /\ cacheFile # << >> /\ code = cacheFile[1]
    /\ success /\ llmCalls = 0

\* C5 (as stated): when the cache file exists at the start of the run, the
\* generation service is never called during the run.
C5_CacheHitNeverCallsLlm ==
    cacheAtStart # << >> => llmCalls = 0

\* C6 (as stated): success is changed only by tester, to the runner's result.
C6_OnlyTesterChangesSuccess ==
    [][success' # success => (pc = "Tester" /\ success' = runnerResult')]_vars

\* C6 (amended): success is changed only by tester, which sets it to the
\* runner's result, and by codegen on a cache hit, which sets it to TRUE;
\* executor, fixer and the driver loop never change it.
C6_SuccessWriters ==
    [][/\ pc = "Tester" => success' = runnerResult'
       /\ success' # success =>
            \/ pc = "Tester"
            \/ pc = "CodeGen" /\ cacheFile # << >> /\ success']_vars

\* Both writers have acted: the cache hit set success, a failing test cleared
\* it, and after a repair a passing test set it again.
C6_Witness ==
    /\ last = "Tester" /\ success /\ runnerResult
    /\ cacheAtStart # << >> /\ fixerRuns >= 1

\* C7 (as stated): attempts never decreases from one step to the next.
C7_AttemptsNeverDecrease ==
    [][attempts' >= attempts]_vars

\* C8 (as stated): attempts equals the number of fixer steps executed so far.
C8_AttemptsCountsRepairs ==
    attempts = fixerRuns

\* C9: a failure of tester's diagnostic pass does not leave tester and does
\* not change the outcome: success becomes the runner's result, the run goes
\* on to the routing decision, and only the log records the failure.
C9_DiagnosticsContained ==
    [][pc = "Tester" =>
         (/\ success' = runnerResult'
          /\ pc' = TesterEdges(route_from_tester(runnerResult', attempts))
          /\ code' = code /\ attempts' = attempts
          /\ diagOutcome' = "raises" =>
                (/\ ~success'
                 /\ Len(logs') = 2
                 /\ logs'[2] = "[Agent Diagnostics Error]"))]_vars

\* tester has just run with a failing test and a raising diagnostic pass.
C9_Witness ==
    /\ last = "Tester" /\ diagOutcome = "raises"
    /\ ~success /\ pc = "Fixer"
    /\ logs = <<"stdout+stderr", "[Agent Diagnostics Error]">>

\* C10: the cache file is written iff the run ends with success = TRUE, with
\* the final state.code; otherwise it keeps the content it had at the start.
C10_CacheWrittenIffSuccess ==
    /\ cacheWrites <= 1
    /\ cacheWrites = 1 => (pc = "done" /\ success /\ cacheFile = <<code>>)
    /\ (pc = "done" /\ success) => cacheWrites = 1
    /\ cacheWrites = 0 => cacheFile = cacheAtStart

\* A successful run replaced the cache content by a repaired artifact.
C10_Witness ==
    /\ pc = "done" /\ success /\ cacheWrites = 1
    /\ cacheFile = <<code>> /\ cacheFile # cacheAtStart
    /\ fixerRuns >= 1

\* C11: in a single graph run, whatever attempts is at entry (0 included),
\* fixer executes at most max_attempts times.
C11_RepairsBounded ==
    fixerRuns <= max_attempts

\* A graph run entered with attempts = 0 that used all max_attempts repairs.
C11_Witness ==
    /\ pc = "END" /\ ~success
    /\ fixerRuns = max_attempts /\ attempts = max_attempts

\* C12: with max_attempts = 1 and no cache file, fixer never runs, and a run
\* whose test failed ends after exactly one outer iteration with
\* success = FALSE.
C12_SingleAttempt ==
    (max_attempts = 1 /\ cacheAtStart = << >>) =>
        /\ fixerRuns = 0
        /\ graphInvocations <= 1
        /\ (pc = "done" /\ ~runnerResult) =>
              (~success /\ graphInvocations = 1 /\ attempt = 1)

\* The run with max_attempts = 1 has ended after one generation, one failing
\* test and no repair.
C12_Witness ==
    /\ max_attempts = 1 /\ cacheAtStart = << >>
    /\ pc = "done" /\ ~runnerResult /\ ~success
    /\ graphInvocations = 1 /\ llmCalls = 1 /\ fixerRuns = 0

\* C13: the nodes run in the order CodeGen, Executor, Tester, then END or
\* Fixer, Executor, Tester again (a node whose external call raises ends the
\* run): every Tester step directly follows an Executor step that wrote the
\* current code, every completed Fixer step is followed by Executor, and Fixer
\* is entered only from Tester with success = FALSE and
\* attempts < max_attempts.
C13_NodeOrder ==
    [][/\ pc = "CodeGen" => pc' \in {"Executor", "aborted"}
       /\ pc = "Executor" => pc' \in {"Tester", "aborted"}
       /\ pc = "Tester" => pc' \in {"END", "Fixer"}
       /\ pc = "Fixer" => pc' \in {"Executor", "aborted"}
       /\ pc' = "CodeGen" => pc = "for"
       /\ pc' = "Executor" => pc \in {"CodeGen", "Fixer"}
       /\ pc' = "Tester" => (pc = "Executor" /\ parserFile' = <<code'>>)
       /\ pc' = "Fixer" => (pc = "Tester" /\ ~success' /\ attempts' < max_attempts)
       /\ pc' = "aborted" => raised' # "none"]_vars

\* Executor has just written a repaired artifact and Tester is next.
C13_Witness ==
    /\ pc = "Tester" /\ last = "Executor"
    /\ fixerRuns >= 1 /\ parserFile = <<code>>

\* C14: a failure of the generation service in codegen or fixer ends the run
\* at that step: the run is aborted, no step follows, and the cache file is
\* not written.
C14_LlmFailureAborts ==
    /\ [](raised = "call_llm" =>
            (/\ pc = "aborted"
             /\ last \in {"CodeGen", "Fixer"}
             /\ cacheWrites = 0
             /\ cacheFile = cacheAtStart))
    /\ [][raised # "call_llm"]_vars

\* The generation service failed in fixer, after an earlier repair.
C14_Witness ==
    /\ raised = "call_llm" /\ pc = "aborted"
    /\ last = "Fixer" /\ fixerRuns >= 1

\* ------------------------------------------- claims about the comparison
\* What the claims speak of, stated apart from the functions' models.
Summarized == cmpPc \in {"summarized", "both"}

\* actual without the rows whose cells equal its column labels.
DeleteHeaderRows(df) ==
    LET data(row) == row # df.cols
    IN  [cols |-> df.cols, rows |-> SelectSeq(df.rows, data)]

Filled(v) == IF v = Null THEN "" ELSE v

\* e and a are cell-wise identical once a's header rows are deleted, both are
\* cut to the shorter row count and nulls are read as "".
IdenticalAfterPreparation(e, a) ==
    LET a2 == DeleteHeaderRows(a)
        n == Min(Len(e.rows), Len(a2.rows))
    IN  /\ e.cols = a2.cols
        /\ \A i \in 1..n : \A j \in 1..Len(e.cols) :
               Filled(e.rows[i][j]) = Filled(a2.rows[i][j])

\* C15 (as stated): for datasets identical after header-row removal,
\* truncation and null filling, compare_and_summarize returns exactly the
\* all-match sentinel.
C15_IdenticalGivesAllMatch ==
    (Summarized /\ IdenticalAfterPreparation(expected, actual)) =>
        summary = AllMatch

\* C16 (as stated): compare_and_summarize never raises.
C16_NeverRaises ==
    Summarized => summary.raised = "none"

\* C17: a reported row-match count lies in 0..len(expected) and is at most
\* min(len(expected), len(actual without its header rows)); it is reported
\* over len(expected).
C17_RowMatchRange ==
    (Summarized /\ summary.raised = "none" /\ summary # AllMatch) =>
        /\ summary.row_matches \in 0..Len(expected.rows)
        /\ summary.row_matches <=
              Min(Len(expected.rows), Len(DeleteHeaderRows(actual).rows))
        /\ summary.total = Len(expected.rows)

\* A report of one matching row out of two.
C17_Witness ==
    /\ Summarized /\ summary.raised = "none"
    /\ summary.row_matches = 1 /\ summary.total = 2
    /\ Len(expected.cols) = 2

\* C18 (as stated): the result equals the result on actual with its header
\* rows deleted.
C18_SameAsOnDeletedRows ==
    Summarized =>
        summary = compare_and_summarize(expected, DeleteHeaderRows(actual))

\* C19 (as stated): the returned string always ends with the mapping from
\* each column of expected to its mismatch count or MISSING.
EndsWithMapping(e, res) ==
    /\ res.raised = "none"
    /\ Len(res.parts) >= 1
    /\ res.parts[Len(res.parts)] = "Mismatches by column"
    /\ Len(res.mismatches) = Len(e.cols)
    /\ \A k \in 1..Len(e.cols) :
          /\ res.mismatches[k][1] = e.cols[k]
          /\ res.mismatches[k][3] \in 0..Len(e.rows)
          /\ ~res.mismatches[k][2] => res.mismatches[k][3] = 0
C19_AlwaysEndsWithMapping ==
    Summarized => EndsWithMapping(expected, summary)

\* C19 (amended): whenever compare_and_summarize returns a string other than
\* the all-match sentinel, its final segment is the mapping from each column
\* of expected to its mismatch count or MISSING.
C19_ReportEndsWithMapping ==
    (Summarized /\ summary.raised = "none" /\ summary # AllMatch) =>
        EndsWithMapping(expected, summary)

\* A report whose mapping holds a column with a mismatch and one without.
C19_Witness ==
    /\ Summarized
    /\ summary.parts = <<"rows match exactly!", "Mismatches by column">>
    /\ summary.mismatches = << <<"a", TRUE, 1>>, <<"b", TRUE, 0>> >>

\* C20 (as stated): on every pair compare_and_assert rejects,
\* compare_and_summarize does not report the all-match sentinel, and where
\* both produce a message their row-match count and per-column mapping agree.
C20_CallSitesAgree ==
    (cmpPc = "both" /\ asserted.raised # "none") =>
        /\ summary # AllMatch
        /\ (asserted.raised = "AssertionError" /\ summary.raised = "none") =>
              /\ summary.row_matches = asserted.row_matches
              /\ summary.total = asserted.total
              /\ summary.mismatches = asserted.mismatches

\* ------------------------------------------------------------ C21
\* C21: in a driver run (which starts with success = FALSE), every write of
\* the cache file stores exactly the text that is in the parser file, the most
\* recent Tester step ran on that file and passed, and nothing generated or
\* repaired after that Tester step is cached: from the passing Tester step to
\* the cache write neither state.code nor the parser file changes.
C21_CachedIsLastTested ==
    [][ /\ (cacheFile' # cacheFile \/ cacheWrites' # cacheWrites) =>
              /\ pc = "save"
              /\ cacheFile' = parserFile
              /\ cacheFile' = <<code>>
              /\ runnerResult /\ success
        /\ (pc = "Tester" /\ runnerResult' /\ pc' # "aborted") =>
              /\ parserFile = <<code>>
              /\ pc' = "END"
        /\ (pc \in {"END", "save"} /\ runnerResult) =>
              /\ parserFile' = parserFile
              /\ code' = code
              /\ runnerResult' = runnerResult
              /\ llmCalls' = llmCalls
              /\ pc' \in {"save", "done", "aborted"} ]_vars

\* A repaired parser passed its test and was cached.
C21_Witness ==
    /\ pc = "done"
    /\ cacheWrites = 1
    /\ fixerRuns >= 1
    /\ cacheFile = parserFile
    /\ cacheFile # cacheAtStart

\* ------------------------------------------------------------ C22
\* Repairs done by the graph runs 1..k when each of them used its whole
\* allowance of max_attempts - j repairs.
RepairsThrough(k) == k * max_attempts - (k * (k + 1)) \div 2
InGraphRun == pc \in GraphNodes \cup {"END"}
RepairsThisRun == fixerRuns - RepairsThrough(attempt - 1)

\* C22: the graph run of outer iteration k (attempts set to k before it)
\* repairs at most max_attempts - k times, and exactly that often when it ends
\* with success = FALSE; the last iteration never reaches Fixer; every
\* iteration enters the graph at CodeGen, whose code (cache content or a new
\* generation) does not depend on what earlier repairs left in state.code.
C22_RepairsPerIteration ==
    /\ [](InGraphRun =>
              /\ attempt \in 1..max_attempts
              /\ RepairsThisRun \in 0..(max_attempts - attempt)
              /\ RepairsThisRun = attempts - attempt)
    /\ []((pc = "END" /\ ~success) => RepairsThisRun = max_attempts - attempt)
    /\ []((InGraphRun /\ attempt = max_attempts) => pc # "Fixer")
    /\ [][ /\ attempt' # attempt =>
                 /\ pc' \in {"CodeGen", "save"}
                 /\ pc' = "CodeGen" => attempts' = attempt'
          /\ (pc = "CodeGen" /\ pc' = "Executor") =>
                 IF cacheFile # << >>
                 THEN code' = cacheFile[1] /\ llmCalls' = llmCalls
                 ELSE code' \in Artifacts /\ llmCalls' = Count(llmCalls)
          /\ (pc = "Executor" /\ pc' = "Tester") => parserFile' = <<code>> ]_vars

\* The second iteration has generated a text that differs from the repaired
\* one the first iteration left in the parser file, and is about to write it.
C22_Witness ==
    /\ attempt = 2
    /\ pc = "Executor"
    /\ last = "CodeGen"
    /\ fixerRuns = max_attempts - 1
    /\ fixerRuns >= 1
    /\ parserFile # <<code>>

====
